---- MODULE Spec2Model ----
(***************************************************************************)
(* Session / token lifecycle of the Fastify auth template:                 *)
(* AuthService (login, refresh rotation, logout, register), the            *)
(* AuthController handlers that call it, and the authenticate hook that    *)
(* guards logout.  Every handler is split at the point where its database  *)
(* read has returned and its database write has not yet been applied, so   *)
(* that requests interleave the way concurrent requests do on the event    *)
(* loop.                                                                   *)
(***************************************************************************)
EXTENDS Integers, Sequences, FiniteSets, TLC

VARIABLES
    users,      \* the User table: users[i] is the row with id i
    now,        \* wall clock in whole seconds (the unit of the iat/exp claims)
    ticks,      \* how many times the clock has advanced
    inflight,   \* per request slot: the handler suspended between its read and its write
    resp,       \* the response sent by the latest step, NoReq if it sent none
    known,      \* every token value a client has been handed so far
    rotated,    \* refresh tokens for which a refresh has already succeeded
    orphaned,   \* refresh tokens handed out before a logout of their account was answered
    lastRT,     \* per account: refresh token returned by its latest login/refresh
    registered, \* <<email, password>> of every successful registration
    failed,     \* emails of accounts for which a login has failed
    invalid,    \* well-formed emails for which a register was answered 400
    nops        \* number of requests accepted so far

vars == <<users, now, ticks, inflight, resp, known, rotated, orphaned, lastRT,
          registered, failed, invalid, nops>>

(***************************************************************************)
(* Bounds of the exploration.                                              *)
(***************************************************************************)
MaxReqs == 2
MaxOps == 4
MaxTicks == 2

(***************************************************************************)
(* Program constants.                                                      *)
(***************************************************************************)
AccessTTL == 900
RefreshTTL == 604800
MinPasswordLen == 8
BcryptCost == 10

ReqIds == 1..MaxReqs
Emails == {"a@x.com", "b@x.com"}

\* a property the request body does not carry
Undefined == "<undefined>"

\* the request bodies clients send to POST /auth/register: a plain one, one
\* that also carries a refreshToken property, one that also carries a role
\* property, one whose refreshToken property is a token the server issued,
\* one whose password is too short, one without a name and one whose email
\* is not an address
RegisterBodies ==
    { [email |-> "a@x.com", password |-> "password123", name |-> "A", extra |-> "none"],
      [email |-> "a@x.com", password |-> "password123", name |-> "A", extra |-> "refreshToken"],
      [email |-> "b@x.com", password |-> "adminpass123", name |-> "B", extra |-> "role"],
      [email |-> "b@x.com", password |-> "adminpass123", name |-> "B", extra |-> "issuedToken"],
      [email |-> "b@x.com", password |-> "short", name |-> "B", extra |-> "none"],
      [email |-> "b@x.com", password |-> "adminpass123", name |-> Undefined, extra |-> "none"],
      [email |-> "not-an-email", password |-> "password123", name |-> "A", extra |-> "none"] }

\* the request bodies clients send to POST /auth/login
LoginBodies ==
    { [email |-> "a@x.com", password |-> "password123"],
      [email |-> "a@x.com", password |-> "wrongpass"],
      [email |-> "b@x.com", password |-> "adminpass123"] }

Deltas == {1, RefreshTTL}

(***************************************************************************)
(* String values that travel as tokens.  A value is either SQL NULL, the   *)
(* empty string, some string that is not a token signed by this server,    *)
(* or a JWT signed with the server secret carrying {id, name, role, iat,   *)
(* exp}.  HS256 is deterministic: equal claims give the equal string.      *)
(***************************************************************************)
Null == [kind |-> "null", id |-> 0, name |-> "", role |-> "", iat |-> 0, exp |-> 0]
EmptyStr == [kind |-> "empty", id |-> 0, name |-> "", role |-> "", iat |-> 0, exp |-> 0]
Garbage == [kind |-> "garbage", id |-> 0, name |-> "", role |-> "", iat |-> 0, exp |-> 0]

\* a signer that gives every token the lifetime of a refresh token
SignLong(u, ttl, t) ==
    [kind |-> "jwt", id |-> u.id, name |-> u.name, role |-> u.role,
     iat |-> t, exp |-> t + RefreshTTL]

\* jwt.sign({id, name, role}, {expiresIn: ttl}) evaluated at clock value t
Sign(u, ttl, t) ==
    [kind |-> "jwt", id |-> u.id, name |-> u.name, role |-> u.role,
     iat |-> t, exp |-> t + ttl]

\* a verification that lets every value through
VerifyAny(tok, t) == TRUE

\* jwt.verify(token) evaluated at clock value t: does it return a payload?
Verify(tok, t) == tok.kind = "jwt" /\ t <= tok.exp

\* JavaScript truthiness of a string-or-null value
Truthy(v) == v.kind \notin {"null", "empty"}

\* bcrypt.hash(plain, 10)
Hash(p) == [alg |-> "bcrypt", cost |-> BcryptCost, of |-> p]

\* a comparison that accepts any password for a well-formed hash
CompareAny(p, h) == h.alg = "bcrypt"

\* bcrypt.compare(plain, stored)
Compare(p, h) == h.alg = "bcrypt" /\ h.of = p

IsRefresh(tok) == tok.kind = "jwt" /\ tok.exp - tok.iat = RefreshTTL
IsAccess(tok) == tok.kind = "jwt" /\ tok.exp - tok.iat = AccessTTL

(***************************************************************************)
(* The store.                                                              *)
(***************************************************************************)
Ids == 1..Len(users)

\* email is a unique column, so there are never more rows than emails
AllIds == 1..Cardinality(Emails)

\* a lookup by email that never finds a row
FindByEmailNone(e) == 0

\* prisma.user.findUnique({where: {email}}): the id of the row, 0 if none
FindByEmail(e) ==
    IF \E i \in Ids : users[i].email = e
    THEN CHOOSE i \in Ids : users[i].email = e
    ELSE 0

\* prisma.user.findUnique({where: {id}}): the id of the row, 0 if none
FindById(i) == IF i \in Ids THEN i ELSE 0

\* an update that is lost
SetRefreshTokenLost(i, v) == users

\* prisma.user.update({where: {id}, data: {refreshToken: v}})
SetRefreshToken(i, v) == [users EXCEPT ![i].refreshToken = v]

(***************************************************************************)
(* Requests and responses.  The fields replay, orphan, fresh, alone, dup,  *)
(* afterFail, regd, bad, afterBad and free record what was true of the     *)
(* request when it arrived or while it ran; no handler reads them.  For a  *)
(* request to a route with preHandler hooks, route is its URL, pc the hook *)
(* or handler that runs next, user the identity request.user, sends the    *)
(* number of reply.send() calls made for it and ran whether its route      *)
(* handler was entered.  body is the set of properties of the JSON body    *)
(* of the response, fault whether a store call made for the request threw. *)
(***************************************************************************)
\* the attributes of a Set-Cookie header; NoCookie: no cookie is set
NoCookie ==
    [httpOnly |-> FALSE, secure |-> FALSE, sameSite |-> "", path |-> "",
     hasMaxAge |-> FALSE, maxAge |-> 0]

\* the options AuthController passes to setCookie("refreshToken", ...):
\* httpOnly, secure, path and sameSite: true (serialized as Strict); neither
\* maxAge nor expires is passed
RefreshCookie ==
    [httpOnly |-> TRUE, secure |-> TRUE, sameSite |-> "Strict",
     path |-> "/api/auth/refresh", hasMaxAge |-> FALSE, maxAge |-> 0]

\* the URL of the refresh endpoint: authRoutes is registered under the
\* prefix "/api/auth"
RefreshRoute == "/api/auth" \o "/refresh"

\* the cookie paths that make a browser send the cookie to url
CoveringPaths(url) ==
    IF url = "/api/auth/refresh"
    THEN {"/", "/api", "/api/auth", "/api/auth/refresh"}
    ELSE {"/"}

NoReq ==
    [op |-> "none", email |-> "", password |-> "", name |-> "",
     xrole |-> "none", xrt |-> Null, tok |-> Null, uid |-> 0, snap |-> Null,
     status |-> 0, msg |-> "", access |-> Null, refresh |-> Null,
     replay |-> FALSE, orphan |-> FALSE, fresh |-> FALSE, alone |-> FALSE,
     dup |-> FALSE, afterFail |-> FALSE, regd |-> FALSE, bad |-> FALSE,
     afterBad |-> FALSE, free |-> FALSE,
     route |-> "", pc |-> "", user |-> Null, sends |-> 0, ran |-> FALSE,
     body |-> {}, fault |-> FALSE, cookie |-> NoCookie, signs |-> 0,
     late |-> FALSE]

Pending == {q \in ReqIds : inflight[q].op # "none"}

\* a request is taken by the lowest free slot
CanStart(r) ==
    /\ nops < MaxOps
    /\ inflight[r].op = "none"
    /\ \A q \in ReqIds : q < r => inflight[q].op # "none"

\* every request being served now overlaps the one that arrives
Overlapped == [q \in ReqIds |-> [inflight[q] EXCEPT !.alone = FALSE]]

\* the arriving request rec is suspended in slot r
Suspend(r, rec) ==
    inflight' = [Overlapped EXCEPT ![r] = [rec EXCEPT !.alone = (Pending = {})]]

\* the response to request rec: status, message and tokens, without the
\* request's password, name and extra body properties
Response(rec, st, m, at, rt) ==
    [rec EXCEPT !.status = st, !.msg = m, !.access = at, !.refresh = rt,
                !.password = "", !.name = "", !.xrole = "none", !.xrt = Null,
                !.snap = Null]

(***************************************************************************)
(* JSON bodies, as the set of their properties.  The password hash of a    *)
(* row is its password column, its refresh token its refreshToken column.  *)
(***************************************************************************)
UserColumns == {"id", "email", "name", "password", "role", "refreshToken"}

\* the body of the default error reply
ErrorProps == {"statusCode", "error", "message"}

\* what loginUser returns: { user, accessToken, refreshToken }, user being
\* the row read by findUnique
LoginResultProps ==
    {"user." \o c : c \in UserColumns} \cup {"accessToken", "refreshToken"}

\* a response schema that lets every property through
LoginResponseAll == LoginResultProps

\* LoginSchema.response[201]: the properties the serializer writes
LoginResponseSchema == {"user.id", "user.name", "user.role", "accessToken"}

\* AuthController.login: refreshToken is taken out of the result, the rest is
\* sent and serialized with the response schema
LoginBodyProps == (LoginResultProps \ {"refreshToken"}) \cap LoginResponseSchema

\* AuthController.refresh: send({ accessToken }) under refreshTokenSchema
RefreshBodyProps == {"accessToken"}

\* registerUser returns the created row with password omitted
RegisterBodyProps == UserColumns \ {"password"}

\* a rejection that hands the presented token back as a refresh token
RejectEchoing(rec, st, m) ==
    /\ inflight' = Overlapped
    /\ resp' = [Response([rec EXCEPT !.alone = (Pending = {})], st, m, Null,
                          rec.tok)
                  EXCEPT !.body = ErrorProps]

\* the arriving request rec is answered at once with status st
Reject(rec, st, m) ==
    /\ inflight' = Overlapped
    /\ resp' = [Response([rec EXCEPT !.alone = (Pending = {})], st, m, Null, Null)
                  EXCEPT !.body = ErrorProps]

\* what a client can put in the refresh cookie or the Authorization header
Presentable == known \cup {EmptyStr, Garbage}

Init ==
    /\ users = <<>>
    /\ now = 0
    /\ ticks = 0
    /\ inflight = [r \in ReqIds |-> NoReq]
    /\ resp = NoReq
    /\ known = {}
    /\ rotated = {}
    /\ orphaned = {}
    /\ lastRT = [i \in AllIds |-> Null]
    /\ registered = {}
    /\ failed = {}
    /\ invalid = {}
    /\ nops = 0

Tick(d) ==
    /\ ticks < MaxTicks
    /\ now' = now + d
    /\ ticks' = ticks + 1
    /\ resp' = NoReq
    /\ UNCHANGED <<users, inflight, known, rotated, orphaned, lastRT,
                   registered, invalid, failed, nops>>

(***************************************************************************)
(* POST /auth/login: AuthController.login -> AuthService.loginUser         *)
(***************************************************************************)
\* the refresh token loginUser settles on, given the row it read and the clock
LoginRefreshToken(u, t) ==
    IF Truthy(u.refreshToken)
    THEN IF Verify(u.refreshToken, t)
         THEN u.refreshToken
         ELSE Sign(u, RefreshTTL, t)
    ELSE EmptyStr

\* the number of jwt.sign calls loginUser makes: the access token, and the
\* refresh token in the catch of jwt.verify
LoginSigns(u, t) ==
    IF Truthy(u.refreshToken) /\ ~Verify(u.refreshToken, t) THEN 2 ELSE 1

\* a message that tells an unknown email from a wrong password
LoginFailureTelling(uid) ==
    IF uid = 0 THEN "User not found" ELSE "Invalid credentials"

\* the message of the 401 thrown when no row has the email (uid = 0) and of
\* the 401 thrown when bcrypt.compare fails
LoginFailure(uid) == "Invalid credentials"

\* findUnique by email has returned and bcrypt.compare has run
LoginStart(r, e, p) ==
    /\ CanStart(r)
    /\ nops' = nops + 1
    /\ LET uid == FindByEmail(e)
           rec == [NoReq EXCEPT !.op = "login", !.email = e, !.password = p,
                                !.afterFail = (e \in failed),
                                !.regd = (<<e, p>> \in registered),
                                !.bad = ~\E i \in Ids :
                                            /\ users[i].email = e
                                            /\ users[i].password = Hash(p)]
           ok == IF uid = 0 THEN FALSE ELSE Compare(p, users[uid].password)
       IN IF ok
          THEN /\ Suspend(r, [rec EXCEPT !.uid = uid,
                                         !.snap = users[uid].refreshToken])
               /\ resp' = NoReq
               /\ failed' = failed
          ELSE /\ Reject(rec, 401, LoginFailure(uid))
               /\ failed' = IF uid = 0 THEN failed ELSE failed \cup {e}
    /\ UNCHANGED <<users, now, ticks, known, rotated, orphaned, lastRT, registered, invalid>>

\* tokens are signed, the update is applied and the reply is sent
LoginFinish(r) ==
    /\ inflight[r].op = "login"
    /\ LET uid == inflight[r].uid
           user == [users[uid] EXCEPT !.refreshToken = inflight[r].snap]
           accessToken == Sign(user, AccessTTL, now)
           refreshToken == LoginRefreshToken(user, now)
       IN /\ users' = SetRefreshToken(uid, refreshToken)
          /\ resp' = [Response(inflight[r], 201, "", accessToken, refreshToken)
                        EXCEPT !.body = LoginBodyProps, !.cookie = RefreshCookie,
                               !.signs = LoginSigns(user, now)]
          /\ known' = known \cup {accessToken, refreshToken}
          /\ lastRT' = [lastRT EXCEPT ![uid] = refreshToken]
    /\ inflight' = [inflight EXCEPT ![r] = NoReq]
    /\ UNCHANGED <<now, ticks, rotated, orphaned, registered, invalid, failed, nops>>

(***************************************************************************)
(* GET /auth/refresh: AuthController.refresh -> AuthService.refreshUserToken *)
(***************************************************************************)
\* checks that leave out the comparison with the stored slot
RotateAcceptsSigned(tok, t) == Verify(tok, t) /\ FindById(tok.id) # 0

\* the checks of refreshUserToken on the presented cookie value
RotateAccepts(tok, t) ==
    /\ Verify(tok, t)
    /\ FindById(tok.id) # 0
    /\ users[tok.id].refreshToken = tok

\* a rotation that mints refresh tokens with the lifetime of access tokens
NewRefreshTokenShort(u, t) == Sign(u, AccessTTL, t)

\* the refresh token refreshUserToken mints for the row it read
NewRefreshToken(u, t) == Sign(u, RefreshTTL, t)

\* is a presented token older than the 7 days of expiresIn: "7d"?
Aged(tok, t) == tok.kind = "jwt" /\ t > tok.iat + RefreshTTL

\* has a presented token outlived its exp claim?
Expired(tok, t) == tok.kind = "jwt" /\ t > tok.exp

\* the message of the 401 thrown by the catch of refreshUserToken, whatever
\* was thrown inside the try
RefreshFailure(tok, t) == "Invalid or expired refresh token"

\* the token is verified and findUnique by id has returned
RefreshStart(r) ==
    /\ CanStart(r)
    /\ nops' = nops + 1
    /\ \E tok \in Presentable :
       LET rec == [NoReq EXCEPT !.op = "refresh", !.tok = tok,
                                !.replay = (tok \in rotated),
                                !.orphan = (tok \in orphaned),
                                !.fresh = /\ \E i \in Ids : lastRT[i] = tok
                                          /\ ~Expired(tok, now),
                                !.late = Aged(tok, now)]
       IN IF RotateAccepts(tok, now)
          THEN /\ Suspend(r, [rec EXCEPT !.uid = tok.id])
               /\ resp' = NoReq
          ELSE Reject(rec, 401, RefreshFailure(tok, now))
    /\ UNCHANGED <<users, now, ticks, known, rotated, orphaned, lastRT,
                   registered, invalid, failed>>

\* both tokens are signed, the update is applied and the reply is sent
RefreshFinish(r) ==
    /\ inflight[r].op = "refresh"
    /\ LET uid == inflight[r].uid
           user == users[uid]
           accessToken == Sign(user, AccessTTL, now)
           newRefreshToken == NewRefreshToken(user, now)
       IN /\ users' = SetRefreshToken(uid, newRefreshToken)
          /\ resp' = [Response([inflight[r] EXCEPT
                                    !.dup = (inflight[r].tok \in rotated)],
                                 200, "", accessToken, newRefreshToken)
                        EXCEPT !.body = RefreshBodyProps, !.cookie = RefreshCookie,
                               !.signs = 2]
          /\ known' = known \cup {accessToken, newRefreshToken}
          /\ lastRT' = [lastRT EXCEPT ![uid] = newRefreshToken]
    /\ rotated' = rotated \cup {inflight[r].tok}
    /\ inflight' = [inflight EXCEPT ![r] = NoReq]
    /\ UNCHANGED <<now, ticks, orphaned, registered, invalid, failed, nops>>

(***************************************************************************)
(* Routes with preHandler hooks: the authenticate and authorize decorators *)
(* of the auth plugin, the routes of usersRoutes and /logout of            *)
(* authRoutes, and the handlers of UsersController.  A request runs its    *)
(* preHandler hooks in order and then its handler, one step each.          *)
(***************************************************************************)
Roles == {"USER", "ADMIN", "MODERATOR"}

Routes == {"/authRoute", "/adminRoute", "/moderatorRoute",
           "/moderatorAndAdminRoute", "/api/auth/logout"}

\* the preHandler array of each route
PreHandlers(route) ==
    IF route \in {"/authRoute", "/api/auth/logout"}
    THEN <<"authenticate">>
    ELSE <<"authenticate", "authorize">>

\* the argument of fastify.authorize on each route
RequiredRoles(route) ==
    CASE route = "/adminRoute" -> {"ADMIN"}
      [] route = "/moderatorRoute" -> {"MODERATOR"}
      [] route = "/moderatorAndAdminRoute" -> {"MODERATOR", "ADMIN"}
      [] OTHER -> {}

\* reply.code(st).send(...): the first reply sent is the one the client gets
Send(q, st, m) ==
    [q EXCEPT !.sends = @ + 1,
              !.status = IF q.sends = 0 THEN st ELSE @,
              !.msg = IF q.sends = 0 THEN m ELSE @]

\* a hook runner that goes on whether or not a reply has been sent
AfterHookAlways(q, i) ==
    [q EXCEPT !.pc = IF i < Len(PreHandlers(q.route))
                     THEN PreHandlers(q.route)[i + 1]
                     ELSE "handler"]

\* what follows once preHandler number i has resolved: a reply that has been
\* sent ends the request, otherwise the next preHandler runs, then the handler
AfterHook(q, i) ==
    [q EXCEPT !.pc = IF q.sends > 0 THEN "done"
                     ELSE IF i < Len(PreHandlers(q.route))
                     THEN PreHandlers(q.route)[i + 1]
                     ELSE "handler"]

\* an authenticate that also asks the store whether the account has a session
AuthenticateStored(tok, t) ==
    /\ Verify(tok, t)
    /\ tok.id \in Ids
    /\ Truthy(users[tok.id].refreshToken)

\* fastify.authenticate: does request.jwtVerify() accept the bearer token?
Authenticate(tok, t) == Verify(tok, t)

\* fastify.authenticate as the first preHandler
AuthenticateHook(r) ==
    /\ inflight[r].op = "gate"
    /\ inflight[r].pc = "authenticate"
    /\ LET q == inflight[r]
           q1 == IF Authenticate(q.tok, now)
                 THEN [q EXCEPT !.user = q.tok]
                 ELSE Send(q, 401, "Unauthorized")
       IN /\ inflight' = [inflight EXCEPT ![r] = AfterHook(q1, 1)]
          /\ resp' = IF q1.sends > q.sends THEN AfterHook(q1, 1) ELSE NoReq
    /\ UNCHANGED <<users, now, ticks, known, rotated, orphaned, lastRT,
                   registered, failed, invalid, nops>>

\* an authorize that rejects nobody
ForbiddenNever(user, roles) == FALSE

\* the condition under which the hook returned by fastify.authorize(roles)
\* replies 403
Forbidden(user, roles) == user # Null /\ user.role \notin roles

\* fastify.authorize(roles) as the second preHandler
AuthorizeHook(r) ==
    /\ inflight[r].op = "gate"
    /\ inflight[r].pc = "authorize"
    /\ LET q == inflight[r]
           q1 == IF Forbidden(q.user, RequiredRoles(q.route))
                 THEN Send(q, 403, "Forbidden - insufficient role")
                 ELSE q
       IN /\ inflight' = [inflight EXCEPT ![r] = AfterHook(q1, 2)]
          /\ resp' = IF q1.sends > q.sends THEN AfterHook(q1, 2) ELSE NoReq
    /\ UNCHANGED <<users, now, ticks, known, rotated, orphaned, lastRT,
                   registered, failed, invalid, nops>>

\* the route handler: the UsersController handlers reply with request.user;
\* AuthController.logout calls logoutUser with request.user.id, does not
\* await it and replies 200, leaving the service suspended at its findUnique
RouteHandler(r) ==
    /\ inflight[r].op = "gate"
    /\ inflight[r].pc = "handler"
    /\ LET q == [inflight[r] EXCEPT !.ran = TRUE]
           q1 == IF q.route = "/api/auth/logout"
                 THEN [Send(q, 200, "") EXCEPT !.op = "logout",
                                               !.uid = q.user.id,
                                               !.pc = "service"]
                 ELSE [Send(q, 200, "") EXCEPT !.pc = "done"]
       IN /\ inflight' = [inflight EXCEPT ![r] = q1]
          /\ resp' = q1
    /\ UNCHANGED <<users, now, ticks, known, rotated, orphaned, lastRT,
                   registered, failed, invalid, nops>>

(***************************************************************************)
(* GET /auth/logout: authenticate hook, AuthController.logout,             *)
(* AuthService.logoutUser                                                  *)
(***************************************************************************)
\* the hook runs; the handler calls logoutUser without awaiting it, so the
\* reply is sent while the service is still suspended at its findUnique
LogoutStart(r) ==
    /\ CanStart(r)
    /\ nops' = nops + 1
    /\ \E tok \in Presentable :
       LET rec == [NoReq EXCEPT !.op = "logout", !.tok = tok]
       IN IF Authenticate(tok, now)
          THEN /\ Suspend(r, [rec EXCEPT !.uid = tok.id, !.status = 200])
               /\ resp' = Response([rec EXCEPT !.uid = tok.id,
                                                !.alone = (Pending = {})],
                                    200, "", Null, Null)
               /\ orphaned' = orphaned \cup
                                {k \in known : IsRefresh(k) /\ k.id = tok.id}
               /\ lastRT' = [i \in AllIds |->
                                IF i = tok.id THEN Null ELSE lastRT[i]]
          ELSE /\ Reject(rec, 401, "Unauthorized")
               /\ UNCHANGED <<orphaned, lastRT>>
    /\ UNCHANGED <<users, now, ticks, known, rotated, registered, invalid, failed>>

\* a logout that clears the slot of every account
LogoutFinishAll(r) ==
    /\ inflight[r].op = "logout"
    /\ LET uid == inflight[r].uid
       IN /\ users' = IF FindById(uid) = 0 THEN users
                      ELSE [i \in Ids |-> [users[i] EXCEPT !.refreshToken = Null]]
          /\ lastRT' = [i \in AllIds |-> IF i = uid THEN Null ELSE lastRT[i]]
    /\ inflight' = [inflight EXCEPT ![r] = NoReq]
    /\ resp' = NoReq
    /\ UNCHANGED <<now, ticks, known, rotated, orphaned, registered, invalid,
                   failed, nops>>

\* logoutUser's findUnique and update reach the store
LogoutFinish(r) ==
    /\ inflight[r].op = "logout"
    /\ LET uid == inflight[r].uid
       IN /\ users' = IF FindById(uid) = 0 THEN users
                      ELSE SetRefreshToken(uid, Null)
          /\ lastRT' = [i \in AllIds |-> IF i = uid THEN Null ELSE lastRT[i]]
    /\ inflight' = [inflight EXCEPT ![r] = NoReq]
    /\ resp' = NoReq
    /\ UNCHANGED <<now, ticks, known, rotated, orphaned, registered, invalid,
                   failed, nops>>

(***************************************************************************)
(* POST /auth/register: RegisterSchema, AuthController.register,           *)
(* AuthService.registerUser, the create extension of the prisma plugin     *)
(***************************************************************************)
\* format "email": the addresses of Emails are well formed
WellFormedEmail(e) == e \in Emails

\* a schema that lets every body through
ValidAnyBody(e, p, n) == TRUE

\* RegisterSchema on the body: email, password and name are required strings,
\* email is an address and password has at least 8 characters
ValidRegisterBody(e, p, n) ==
    /\ e # Undefined /\ p # Undefined /\ n # Undefined
    /\ WellFormedEmail(e)
    /\ Len(p) >= MinPasswordLen

\* the role and refreshToken properties a register body carries besides
\* email, password and name
BodyRole(extra) == IF extra = "role" THEN "ADMIN" ELSE "none"
BodyRefreshToken(extra) == IF extra = "refreshToken" THEN Garbage ELSE Null

\* the values of the refreshToken property of a register body: a client can
\* also send a refresh token that this server has issued to it
BodyRefreshTokens(extra) ==
    IF extra = "issuedToken" THEN {k \in known : IsRefresh(k)}
                             ELSE {BodyRefreshToken(extra)}

\* the row inserted if the create extension did not hash the password
CreatedUserPlain(id, e, p, n, xrole, xrt) ==
    [id |-> id, email |-> e, name |-> n,
     password |-> [alg |-> "plain", cost |-> 0, of |-> p],
     role |-> IF xrole = "none" THEN "USER" ELSE xrole,
     refreshToken |-> xrt]

\* the row prisma.user.create inserts for the request body it is handed:
\* the password is hashed by the create extension, role and refreshToken
\* take the column defaults unless the body carries them
CreatedUser(id, e, p, n, xrole, xrt) ==
    [id |-> id, email |-> e, name |-> n, password |-> Hash(p),
     role |-> IF xrole = "none" THEN "USER" ELSE xrole,
     refreshToken |-> xrt]

\* the body is validated and findUnique by email has returned
RegisterStart(r, e, p, n, extra) ==
    /\ CanStart(r)
    /\ nops' = nops + 1
    /\ \E xrt \in BodyRefreshTokens(extra) :
       LET rec == [NoReq EXCEPT !.op = "register", !.email = e, !.password = p,
                                !.name = n, !.xrole = BodyRole(extra),
                                !.xrt = xrt,
                                !.afterBad = (e \in invalid),
                                !.free = ~\E i \in Ids : users[i].email = e]
       IN IF ~ValidRegisterBody(e, p, n)
          THEN /\ Reject(rec, 400, "Bad Request")
               /\ invalid' = invalid \cup ({e} \cap Emails)
          ELSE IF FindByEmail(e) # 0
          THEN /\ Reject(rec, 403, "User Already exist")
               /\ invalid' = invalid
          ELSE /\ Suspend(r, rec)
               /\ resp' = NoReq
               /\ invalid' = invalid
    /\ UNCHANGED <<users, now, ticks, known, rotated, orphaned, lastRT,
                   registered, failed>>

\* the insert reaches the store (email is a unique column)
RegisterFinish(r) ==
    /\ inflight[r].op = "register"
    /\ LET q == inflight[r]
       IN IF FindByEmail(q.email) # 0
          THEN /\ resp' = [Response(q, 500, "Internal Server Error", Null, Null)
                             EXCEPT !.body = ErrorProps]
               /\ UNCHANGED <<users, registered>>
          ELSE /\ users' = Append(users,
                              CreatedUser(Len(users) + 1, q.email, q.password,
                                          q.name, q.xrole, q.xrt))
               /\ resp' = [Response([q EXCEPT !.uid = Len(users) + 1],
                                      201, "", Null, Null)
                             EXCEPT !.body = RegisterBodyProps]
               /\ registered' = registered \cup {<<q.email, q.password>>}
    /\ inflight' = [inflight EXCEPT ![r] = NoReq]
    /\ UNCHANGED <<now, ticks, known, rotated, orphaned, lastRT, failed, invalid,
                   nops>>

(***************************************************************************)
(* The store throwing (connection lost, query failed) in a call a handler  *)
(* awaits.  An error without statusCode that leaves a handler is answered  *)
(* 500 by the default error handler.                                       *)
(***************************************************************************)
\* the status of the reply to an error that carries no statusCode
Internal == 500

\* refreshUserToken: findUnique throws inside the try, after jwt.verify has
\* passed; the catch replaces whatever was thrown by its own 401
RefreshReadFails(r) ==
    /\ CanStart(r)
    /\ nops' = nops + 1
    /\ \E tok \in Presentable :
         /\ Verify(tok, now)
         /\ Reject([NoReq EXCEPT !.op = "refresh", !.tok = tok, !.fault = TRUE],
                   401, RefreshFailure(tok, now))
    /\ UNCHANGED <<users, now, ticks, known, rotated, orphaned, lastRT,
                   registered, invalid, failed>>

\* refreshUserToken: update throws inside the try; same catch
RefreshWriteFails(r) ==
    /\ inflight[r].op = "refresh"
    /\ resp' = [Response([inflight[r] EXCEPT !.fault = TRUE], 401,
                          RefreshFailure(inflight[r].tok, now), Null, Null)
                  EXCEPT !.body = ErrorProps]
    /\ inflight' = [inflight EXCEPT ![r] = NoReq]
    /\ UNCHANGED <<users, now, ticks, known, rotated, orphaned, lastRT,
                   registered, invalid, failed, nops>>

\* loginUser: update throws; nothing catches it before the error handler
LoginWriteFails(r) ==
    /\ inflight[r].op = "login"
    /\ resp' = [Response([inflight[r] EXCEPT !.fault = TRUE], Internal,
                          "Internal Server Error", Null, Null)
                  EXCEPT !.body = ErrorProps]
    /\ inflight' = [inflight EXCEPT ![r] = NoReq]
    /\ UNCHANGED <<users, now, ticks, known, rotated, orphaned, lastRT,
                   registered, invalid, failed, nops>>

\* registerUser: create throws; nothing catches it before the error handler
RegisterWriteFails(r) ==
    /\ inflight[r].op = "register"
    /\ resp' = [Response([inflight[r] EXCEPT !.fault = TRUE], Internal,
                          "Internal Server Error", Null, Null)
                  EXCEPT !.body = ErrorProps]
    /\ inflight' = [inflight EXCEPT ![r] = NoReq]
    /\ UNCHANGED <<users, now, ticks, known, rotated, orphaned, lastRT,
                   registered, invalid, failed, nops>>

\* logoutUser: findUnique or update throws; the promise is not awaited and
\* the 200 has been sent, so nothing is replied for the failure
LogoutFails(r) ==
    /\ inflight[r].op = "logout"
    /\ inflight' = [inflight EXCEPT ![r] = NoReq]
    /\ resp' = NoReq
    /\ UNCHANGED <<users, now, ticks, known, rotated, orphaned, lastRT,
                   registered, invalid, failed, nops>>

Next ==
    \/ \E d \in Deltas : Tick(d)
    \/ \E r \in ReqIds, b \in LoginBodies : LoginStart(r, b.email, b.password)
    \/ \E r \in ReqIds : LoginFinish(r)
    \/ \E r \in ReqIds : RefreshStart(r)
    \/ \E r \in ReqIds : RefreshFinish(r)
    \/ \E r \in ReqIds : LogoutStart(r)
    \/ \E r \in ReqIds : LogoutFinish(r)
    \/ \E r \in ReqIds, b \in RegisterBodies :
          RegisterStart(r, b.email, b.password, b.name, b.extra)
    \/ \E r \in ReqIds : RegisterFinish(r)

Spec == Init /\ [][Next]_vars

\* the same requests against a store whose calls may throw
FaultNext ==
    \/ Next
    \/ \E r \in ReqIds : RefreshReadFails(r)
    \/ \E r \in ReqIds : RefreshWriteFails(r)
    \/ \E r \in ReqIds : LoginWriteFails(r)
    \/ \E r \in ReqIds : RegisterWriteFails(r)
    \/ \E r \in ReqIds : LogoutFails(r)

FaultSpec == Init /\ [][FaultNext]_vars

(***************************************************************************)
(* One request to a route with preHandler hooks, against a store of one    *)
(* account per role.  Each account has logged in at clock value 0 (which   *)
(* left "" in its slot) and holds the access token of that login; a fourth *)
(* access token belongs to an account whose row has since been deleted.    *)
(***************************************************************************)
SeedRow(i) ==
    [id |-> i,
     email |-> <<"user@example.com", "admin@example.com",
                 "moderator@example.com", "gone@example.com">>[i],
     name |-> <<"U", "A", "M", "G">>[i],
     password |-> Hash("password123"),
     role |-> <<"USER", "ADMIN", "MODERATOR", "USER">>[i],
     refreshToken |-> EmptyStr]

SeedUsers == [i \in 1..Cardinality(Roles) |-> SeedRow(i)]

GateTokens ==
    {Sign(SeedRow(i), AccessTTL, 0) : i \in 1..(Cardinality(Roles) + 1)}
        \cup {EmptyStr, Garbage}

GateTimes == {0, AccessTTL, AccessTTL + 1}

GateRequest(route, tok) ==
    [NoReq EXCEPT !.op = "gate", !.route = route, !.tok = tok,
                  !.pc = PreHandlers(route)[1]]

GateInit ==
    /\ users = SeedUsers
    /\ now \in GateTimes
    /\ ticks = 0
    /\ inflight \in {[q \in ReqIds |-> IF q = r THEN GateRequest(route, tok)
                                                 ELSE NoReq] :
                        r \in ReqIds, route \in Routes, tok \in GateTokens}
    /\ resp = NoReq
    /\ known = {}
    /\ rotated = {}
    /\ orphaned = {}
    /\ lastRT = [i \in AllIds |-> Null]
    /\ registered = {}
    /\ failed = {}
    /\ invalid = {}
    /\ nops = 0

GateNext ==
    \/ \E r \in ReqIds : AuthenticateHook(r)
    \/ \E r \in ReqIds : AuthorizeHook(r)
    \/ \E r \in ReqIds : RouteHandler(r)
    \/ \E r \in ReqIds : LogoutFinish(r)

GateSpec == GateInit /\ [][GateNext]_vars

(***************************************************************************)
(* The hook returned by fastify.authorize(roles), applied to a request     *)
(* that reaches it with or without an identity in request.user.            *)
(***************************************************************************)
RoleRoutes == {route \in Routes : Len(PreHandlers(route)) = 2}

\* request.user as the hook can find it: undefined, or the payload of the
\* bearer token
Identities(tok) == IF tok.kind = "jwt" THEN {Null, tok} ELSE {Null}

\* a request that has reached the authorize hook of its route
AuthorizeRequest(route, tok, user) ==
    [NoReq EXCEPT !.op = "gate", !.route = route, !.tok = tok,
                  !.user = user, !.pc = "authorize"]

AuthorizeInit ==
    /\ users = SeedUsers
    /\ now = 0
    /\ ticks = 0
    /\ \E r \in ReqIds, route \in RoleRoutes, tok \in GateTokens :
         \E user \in Identities(tok) :
           inflight = [q \in ReqIds |->
                         IF q = r THEN AuthorizeRequest(route, tok, user)
                                  ELSE NoReq]
    /\ resp = NoReq
    /\ known = {}
    /\ rotated = {}
    /\ orphaned = {}
    /\ lastRT = [i \in AllIds |-> Null]
    /\ registered = {}
    /\ failed = {}
    /\ invalid = {}
    /\ nops = 0

AuthorizeNext ==
    \/ \E r \in ReqIds : AuthorizeHook(r)
    \/ \E r \in ReqIds : RouteHandler(r)

AuthorizeSpec == AuthorizeInit /\ [][AuthorizeNext]_vars

(***************************************************************************)
(* Properties.                                                             *)
(***************************************************************************)

\* C1: rotation is single-use: a refresh that arrives after a refresh of the
\* same token has succeeded is never answered with success.
C1_RotationSingleUse ==
    ~(resp.op = "refresh" /\ resp.status = 200 /\ resp.replay)

\* C2: of two overlapping refreshes of the same valid token at most one
\* succeeds: no refresh succeeds for a token that another refresh rotated
\* successfully while this one was being served.
C2_OneWinner ==
    ~(resp.op = "refresh" /\ resp.status = 200 /\ resp.dup /\ ~resp.replay)

\* C3: every account has at most one token that refresh accepts, and once a
\* login or refresh has written a token it minted into the slot, no refresh
\* token handed out earlier for that account is accepted any more.
C3_SingleValidToken ==
    /\ [](\A i \in Ids :
            Cardinality({k \in known : k.id = i /\ RotateAccepts(k, now)}) <= 1)
    /\ [][\A r \in ReqIds :
            (\/ RefreshFinish(r)
             \/ LoginFinish(r) /\ resp'.refresh # inflight[r].snap)
            => \A k \in known :
                 (IsRefresh(k) /\ k.id = inflight[r].uid)
                 => ~(/\ Verify(k, now')
                      /\ users'[k.id].refreshToken = k)]_vars

\* C4: a login that succeeds on an account whose slot is null returns a
\* valid 7-day refresh token of that account and stores that same value.
C4_LoginMintsOnNull ==
    [][\A r \in ReqIds :
         (LoginFinish(r) /\ inflight[r].snap = Null)
         => /\ IsRefresh(resp'.refresh)
            /\ Verify(resp'.refresh, now')
            /\ resp'.refresh.id = inflight[r].uid
            /\ users'[inflight[r].uid].refreshToken = resp'.refresh]_vars

\* C5: a refresh that presents the refresh token returned by the latest
\* login or refresh of its account (no logout since, not expired, nothing
\* else being served) succeeds.
C5_LatestTokenRotates ==
    (resp.op = "refresh" /\ resp.fresh /\ resp.alone) => resp.status = 200

\* C6: a successful refresh returns a refresh token different from the one
\* presented, together with an access token.
C6_RotationReturnsNewToken ==
    (resp.op = "refresh" /\ resp.status = 200)
    => /\ resp.refresh # resp.tok
       /\ IsRefresh(resp.refresh)
       /\ IsAccess(resp.access)

\* C7: once logout has been answered 200 the account's slot is null, and a
\* refresh presenting a token handed out before that logout is answered 401.
C7_LogoutClearsSlot ==
    /\ (resp.op = "logout" /\ resp.status = 200 /\ resp.uid \in Ids)
       => users[resp.uid].refreshToken = Null
    /\ (resp.op = "refresh" /\ resp.orphan) => resp.status = 401

\* C8: every account register creates has role USER, a non-null id and a
\* null slot, whatever the request body carries.
C8_RegisterDefaults ==
    [][Len(users') > Len(users)
       => LET u == users'[Len(users')]
          IN u.role = "USER" /\ u.id # 0 /\ u.refreshToken = Null]_vars

\* C9: a login with the email and password of an earlier successful register
\* succeeds and returns that account and an access token for it; the stored
\* hash of a registered account verifies its registered password.
C9_LoginAfterRegister ==
    /\ (resp.op = "login" /\ resp.regd)
       => /\ resp.status = 201
          /\ resp.uid = FindByEmail(resp.email)
          /\ IsAccess(resp.access)
          /\ resp.access.id = resp.uid
    /\ \A c \in registered :
          /\ FindByEmail(c[1]) # 0
          /\ Compare(c[2], users[FindByEmail(c[1])].password)

C9_Witness == resp.op = "login" /\ resp.regd /\ resp.status = 201

\* C10: a login with an unknown email or a password that is not the stored
\* one is answered 401 "Invalid credentials" with no tokens and writes
\* nothing to the store; earlier failures do not stop a login with the
\* registered credentials from succeeding.
C10_FailedLogin ==
    /\ []((resp.op = "login" /\ resp.bad)
            => /\ resp.status = 401
               /\ resp.msg = "Invalid credentials"
               /\ resp.access = Null
               /\ resp.refresh = Null)
    /\ []((resp.op = "login" /\ resp.regd /\ resp.afterFail)
            => resp.status = 201)
    /\ [][(nops' # nops /\ resp'.op = "login" /\ resp'.status = 401)
            => (users' = users /\ known' = known)]_vars

C10_Witness ==
    resp.op = "login" /\ resp.regd /\ resp.afterFail /\ resp.status = 201

\* C11: a schema-valid register whose email already belongs to an account
\* when it arrives is answered 403 "User Already exist", is not processed
\* any further, and leaves the store (every row, hence the existing
\* account's password hash, role and slot) unchanged.
C11_RegisterConflict ==
    [][\A r \in ReqIds, b \in RegisterBodies :
         (/\ nops' # nops
          /\ b.email \in Emails /\ b.name # Undefined
          /\ Len(b.password) >= MinPasswordLen
          /\ \E i \in Ids : users[i].email = b.email
          /\ RegisterStart(r, b.email, b.password, b.name, b.extra))
         => /\ resp'.op = "register"
            /\ resp'.status = 403
            /\ resp'.msg = "User Already exist"
            /\ inflight'[r].op = "none"
            /\ users' = users]_vars

C11_Witness ==
    /\ resp.op = "register" /\ resp.status = 403
    /\ \E i \in Ids : users[i].email = resp.email

\* C12: a register whose password has fewer than 8 characters, whose email
\* is not an address or which lacks a field is answered 400 without the
\* service being entered and without a row being created; a later valid
\* register with the same email (still unregistered, nothing else being
\* served) is answered 201 and creates the account.
C12_InvalidRegister ==
    /\ [][\A r \in ReqIds, b \in RegisterBodies :
            (/\ nops' # nops
             /\ \/ Len(b.password) < MinPasswordLen
                \/ b.email \notin Emails
                \/ Undefined \in {b.email, b.password, b.name}
             /\ RegisterStart(r, b.email, b.password, b.name, b.extra))
            => /\ resp'.op = "register"
               /\ resp'.status = 400
               /\ inflight'[r].op = "none"
               /\ users' = users]_vars
    /\ []((/\ resp.op = "register" /\ resp.afterBad /\ resp.free /\ resp.alone
            /\ resp.status # 400)
           => /\ resp.status = 201
              /\ resp.uid \in Ids
              /\ users[resp.uid].email = resp.email)

C12_Witness ==
    resp.op = "register" /\ resp.afterBad /\ resp.free /\ resp.status = 201

\* C13: for an authenticated identity the role gate lets the request through
\* to the handler (200) exactly when the role is one the route requires, and
\* answers 403 otherwise: /adminRoute takes ADMIN only, /moderatorRoute
\* MODERATOR only, /moderatorAndAdminRoute either of the two and never USER.
C13_AuthorizeRoles ==
    \A r \in ReqIds :
      LET q == inflight[r]
          accepted == \/ q.route = "/adminRoute" /\ q.user.role = "ADMIN"
                      \/ q.route = "/moderatorRoute" /\ q.user.role = "MODERATOR"
                      \/ /\ q.route = "/moderatorAndAdminRoute"
                         /\ q.user.role \in {"ADMIN", "MODERATOR"}
      IN (/\ q.op = "gate" /\ q.pc = "done" /\ q.user # Null
          /\ q.route \in {"/adminRoute", "/moderatorRoute",
                          "/moderatorAndAdminRoute"})
         => IF accepted THEN q.status = 200 /\ q.ran
                        ELSE q.status = 403 /\ ~q.ran

C13_Witness ==
    \E r \in ReqIds :
      /\ inflight[r].op = "gate" /\ inflight[r].pc = "done"
      /\ inflight[r].route = "/moderatorAndAdminRoute"
      /\ inflight[r].user # Null /\ inflight[r].user.role = "MODERATOR"
      /\ inflight[r].status = 200

\* C14: on every route guarded by authenticate, a request whose bearer token
\* is missing, is not a token of this server or has expired is answered 401
\* by the hook with a single reply, its route handler is never entered, and
\* (for logout in particular) no account's slot changes.
C14_AuthenticateGate ==
    \A r \in ReqIds :
      LET q == inflight[r]
      IN (q.op = "gate" /\ ~(q.tok.kind = "jwt" /\ now <= q.tok.exp))
         => /\ ~q.ran
            /\ q.user = Null
            /\ users = SeedUsers
            /\ q.pc # "authenticate"
                 => q.pc = "done" /\ q.status = 401 /\ q.sends = 1

C14_Witness ==
    \E r \in ReqIds :
      /\ inflight[r].op = "gate" /\ inflight[r].pc = "done"
      /\ inflight[r].route = "/api/auth/logout"
      /\ inflight[r].tok.kind = "jwt" /\ now > inflight[r].tok.exp
      /\ inflight[r].status = 401 /\ ~inflight[r].ran

\* C15: a request to a role-gated route whose authenticated role is not a
\* required one is answered 403 by authorize; its route handler is never
\* entered, exactly one reply is sent for it, and nothing more happens to
\* the request once the 403 has been sent.
C15_AuthorizeShortCircuit ==
    /\ [](\A r \in ReqIds :
            LET q == inflight[r]
            IN (/\ q.op = "gate" /\ q.user # Null
                /\ Len(PreHandlers(q.route)) = 2
                /\ q.user.role \notin RequiredRoles(q.route))
               => /\ ~q.ran
                  /\ q.sends <= 1
                  /\ q.pc \in {"authorize", "done"}
                  /\ q.pc = "done" => q.status = 403 /\ q.sends = 1)
    /\ [][\A r \in ReqIds :
            (inflight[r].op = "gate" /\ inflight[r].status = 403)
            => inflight'[r] = inflight[r]]_vars

C15_Witness ==
    \E r \in ReqIds :
      /\ inflight[r].op = "gate" /\ inflight[r].pc = "done"
      /\ inflight[r].route = "/adminRoute"
      /\ inflight[r].user # Null /\ inflight[r].user.role = "USER"
      /\ inflight[r].status = 403 /\ inflight[r].sends = 1

\* C16: a refresh goes on to success exactly when the presented value is a
\* token of this server that has not expired, the account its id claim names
\* exists and the value equals that account's slot; otherwise, a missing or
\* empty cookie included, it is answered 401; a refresh that passed these
\* checks is answered 200.
C16_RotateIff ==
    /\ [][\A r \in ReqIds :
            (nops' # nops /\ RefreshStart(r))
            => LET q == IF inflight'[r].op = "refresh" THEN inflight'[r]
                                                       ELSE resp'
                   ok == /\ q.tok.kind = "jwt"
                         /\ now <= q.tok.exp
                         /\ q.tok.id \in Ids
                         /\ users[q.tok.id].refreshToken = q.tok
               IN IF ok
                  THEN inflight'[r].op = "refresh" /\ resp'.op = "none"
                  ELSE /\ inflight'[r].op = "none"
                       /\ resp'.op = "refresh"
                       /\ resp'.status = 401]_vars
    /\ [][\A r \in ReqIds : RefreshFinish(r) => resp'.status = 200]_vars
    /\ []((resp.op = "refresh" /\ resp.tok = EmptyStr) => resp.status = 401)

C16_Witness ==
    /\ resp.op = "refresh" /\ resp.status = 401
    /\ IsRefresh(resp.tok) /\ Verify(resp.tok, now)

\* C17: a logout whose verified token names an account that has no row is
\* answered 404 rather than with a success, and no row is modified.
C17_LogoutNotFound ==
    /\ (resp.op = "logout" /\ resp.uid \notin Ids) => resp.status = 404
    /\ (\E r \in ReqIds : /\ inflight[r].op \in {"gate", "logout"}
                          /\ inflight[r].tok.id \notin Ids)
       => users = SeedUsers

\* C18: no response of register, login, refresh or logout has the password
\* column of a row in its body, the bodies of login and refresh responses
\* have no refresh token property, and a successful login or refresh hands
\* the refresh token over in the cookie.
C18_NoSecretsInBody ==
    /\ resp.op \in {"register", "login", "refresh", "logout"}
       => resp.body \cap {"password", "user.password"} = {}
    /\ resp.op \in {"login", "refresh"}
       => /\ resp.body \cap {"refreshToken", "user.refreshToken"} = {}
          /\ resp.status \in {200, 201}
               => resp.refresh # Null /\ "accessToken" \in resp.body

C18_Witness ==
    /\ resp.op = "login" /\ resp.status = 201
    /\ resp.uid \in Ids /\ Truthy(users[resp.uid].refreshToken)

\* C19: every failed login gets one and the same response (401 "Invalid
\* credentials", the error body, no tokens) whether the email is unknown or
\* the password wrong, and every failed refresh gets one and the same
\* response (401 "Invalid or expired refresh token") whether the value was
\* not a token, had expired or did not match the slot.
C19_UniformFailures ==
    /\ (resp.op = "login" /\ resp.status # 201)
       => <<resp.status, resp.msg, resp.body, resp.access, resp.refresh>>
            = <<401, "Invalid credentials", ErrorProps, Null, Null>>
    /\ (resp.op = "refresh" /\ resp.status # 200)
       => <<resp.status, resp.msg, resp.body, resp.access, resp.refresh>>
            = <<401, "Invalid or expired refresh token", ErrorProps, Null, Null>>

C19_Witness ==
    /\ resp.op = "login" /\ resp.status = 401
    /\ ~\E i \in Ids : users[i].email = resp.email
    /\ failed # {}

\* C20: whether authenticate accepts a bearer token depends on the token and
\* the clock only: every access token handed out so far is accepted until
\* its exp, whatever has happened to the store since (logout of its
\* account, rotations, further logins), and a request bearing it on a route
\* guarded by authenticate gets past the hook.
C20_StatelessAccess ==
    /\ \A k \in known :
          (IsAccess(k) /\ now <= k.exp) => Authenticate(k, now)
    /\ (resp.op = "logout" /\ IsAccess(resp.tok) /\ now <= resp.tok.exp)
       => resp.status = 200
    /\ (resp.op = "logout" /\ resp.tok.kind = "jwt" /\ now > resp.tok.exp)
       => resp.status = 401

C20_Witness ==
    /\ resp.op = "logout" /\ resp.status = 200
    /\ IsAccess(resp.tok)
    /\ users[resp.uid].refreshToken = Null

\* C21: a request for which a store call threw is answered 500: it is not
\* answered with another error status and has not been answered with a
\* success.
C21_FaultsSurface ==
    /\ [](resp.fault => resp.status = Internal)
    /\ [][\A r \in ReqIds : LogoutFails(r) => inflight[r].status = Internal]_vars

\* C22: every successful login and every successful refresh sets the
\* refreshToken cookie HttpOnly, Secure, SameSite=Strict, with a path that
\* covers the URL of the refresh endpoint and a max-age of 7 days.
C22_CookieContract ==
    (resp.op \in {"login", "refresh"} /\ resp.status \in {200, 201})
    => /\ resp.cookie.httpOnly
       /\ resp.cookie.secure
       /\ resp.cookie.sameSite = "Strict"
       /\ resp.cookie.path \in CoveringPaths(RefreshRoute)
       /\ resp.cookie.hasMaxAge
       /\ resp.cookie.maxAge = RefreshTTL

\* C23: a login that completes while the account's currentRefreshToken
\* verifies returns exactly that stored token and leaves the slot as it was:
\* no login replaces a refresh token that is still valid.
C23_LoginReusesValid ==
    [][\A r \in ReqIds :
         (/\ nops' = nops
          /\ inflight[r].op = "login"
          /\ Verify(users[inflight[r].uid].refreshToken, now)
          /\ LoginFinish(r))
         => /\ resp'.refresh = users[inflight[r].uid].refreshToken
            /\ users'[inflight[r].uid].refreshToken
                 = users[inflight[r].uid].refreshToken]_vars

\* C24: a login that completes while the account's currentRefreshToken is
\* non-null but does not verify mints a new 7-day refresh token, returns it
\* and stores it in the slot; it signs exactly two tokens.
C24_LoginMintsOnStale ==
    [][\A r \in ReqIds :
         (/\ nops' = nops
          /\ inflight[r].op = "login"
          /\ users[inflight[r].uid].refreshToken # Null
          /\ ~Verify(users[inflight[r].uid].refreshToken, now)
          /\ LoginFinish(r))
         => /\ resp'.refresh = Sign(users[inflight[r].uid], RefreshTTL, now)
            /\ users'[inflight[r].uid].refreshToken = resp'.refresh
            /\ resp'.signs = 2]_vars

\* C25: when a login or a rotate has just completed successfully and no
\* other operation overlapped it (or none on its account is in flight), the
\* account's currentRefreshToken is exactly the refresh token returned.
C25_SlotIsReturned ==
    (/\ resp.op \in {"login", "refresh"}
     /\ resp.status \in {200, 201}
     /\ \/ resp.alone
        \/ \A q \in ReqIds : inflight[q].uid # resp.uid)
    => users[resp.uid].refreshToken = resp.refresh

\* a rotate that overlapped nothing has returned a refresh token, and so has
\* a login
C25_Witness ==
    /\ resp.op \in {"login", "refresh"}
    /\ resp.status \in {200, 201}
    /\ resp.alone
    /\ IsRefresh(resp.refresh)
    /\ users[resp.uid].refreshToken = resp.refresh

\* C26: the slot never reverts to a superseded token: no step changes an
\* account's currentRefreshToken to a refresh token that a successful
\* rotation has already consumed, so that a later rotate would accept it.
C26_NoRevert ==
    [][\A i \in Ids :
         users'[i].refreshToken # users[i].refreshToken
         => users'[i].refreshToken \notin rotated]_vars

\* C27: once logoutUser has set an account's currentRefreshToken to null, it
\* stays null until a login of that account completes: the only step that
\* takes a slot from null to a non-null value is a successful login of the
\* account, never a rotate.
C27_LogoutSticks ==
    [][\A i \in Ids :
         (users[i].refreshToken = Null /\ users'[i].refreshToken # Null)
         => /\ resp'.op = "login"
            /\ resp'.status = 201
            /\ resp'.uid = i]_vars

\* C28: a rotate presented more than 7 days after the token's issuance is
\* never accepted, even when the token equals the account's
\* currentRefreshToken; and a rotate that is rejected although the token is
\* well formed, its account exists and the slot holds it, was presented
\* more than 7 days after issuance.
C28_RefreshExpiry ==
    /\ \A r \in ReqIds : inflight[r].op = "refresh" => ~inflight[r].late
    /\ (resp.op = "refresh" /\ resp.status = 200) => ~resp.late
    /\ (/\ resp.op = "refresh" /\ resp.status = 401
        /\ resp.tok.kind = "jwt"
        /\ FindById(resp.tok.id) # 0
        /\ users[resp.tok.id].refreshToken = resp.tok)
       => now > resp.tok.iat + RefreshTTL

\* a rotate presenting the stored token after its 7 days has been rejected
C28_Witness ==
    /\ resp.op = "refresh" /\ resp.status = 401
    /\ resp.late
    /\ FindById(resp.tok.id) # 0
    /\ users[resp.tok.id].refreshToken = resp.tok

\* C29: authenticate populates the identity from an access token only while
\* the clock does not exceed the token's issuance time plus 15 minutes;
\* past that, a request bearing it to any protected route ends with 401 and
\* its handler is not entered.
C29_AccessExpiry ==
    \A r \in ReqIds :
      LET q == inflight[r]
      IN (q.op = "gate" /\ q.tok.kind = "jwt")
         => /\ q.user # Null => now <= q.tok.iat + AccessTTL
            /\ now > q.tok.iat + AccessTTL
                 => /\ ~q.ran
                    /\ q.pc \in {"authenticate", "done"}
                    /\ q.pc = "done" => q.status = 401

\* a request to /authRoute bearing an access token one second past its 15
\* minutes has been answered 401
C29_Witness ==
    \E r \in ReqIds :
      /\ inflight[r].op = "gate" /\ inflight[r].pc = "done"
      /\ inflight[r].route = "/authRoute"
      /\ IsAccess(inflight[r].tok)
      /\ now = inflight[r].tok.iat + AccessTTL + 1
      /\ inflight[r].status = 401

C31_FailedRotateInert ==
    [][(nops' # nops /\ resp'.op = "refresh" /\ resp'.status = 401)
       => /\ users' = users
          /\ resp'.access = Null
          /\ resp'.refresh = Null
          /\ resp'.cookie = NoCookie
          /\ resp'.body = ErrorProps]_vars

\* a rotate presenting a superseded refresh token has been rejected and the
\* slot still holds the token that superseded it
C31_Witness ==
    /\ resp.op = "refresh" /\ resp.status = 401
    /\ IsRefresh(resp.tok)
    /\ FindById(resp.tok.id) # 0
    /\ IsRefresh(users[resp.tok.id].refreshToken)
    /\ users[resp.tok.id].refreshToken # resp.tok
    /\ resp.refresh = Null /\ resp.access = Null

\* C32: token kinds are not interchangeable: a request that authenticate
\* let through bore an access token, not a refresh token, and bore it no
\* more than 15 minutes after its issuance; and a rotate that succeeded
\* was not presented an access token.
C32_KindsApart ==
    /\ (resp.op = "logout" /\ resp.status = 200)
       => /\ ~IsRefresh(resp.tok)
          /\ now <= resp.tok.iat + AccessTTL
    /\ (resp.op = "refresh" /\ resp.status = 200) => ~IsAccess(resp.tok)

\* C33: no step removes an account or changes an account's id, email, name,
\* role or password hash; and a step that changes an account's
\* currentRefreshToken is the completion of a login, rotate or logout that
\* acts on that very account.
C33_Frame ==
    [][/\ Len(users') >= Len(users)
       /\ \A i \in Ids :
            /\ [users'[i] EXCEPT !.refreshToken = Null]
                 = [users[i] EXCEPT !.refreshToken = Null]
            /\ users'[i].refreshToken # users[i].refreshToken
                 => \E r \in ReqIds :
                      /\ inflight[r].op \in {"login", "refresh", "logout"}
                      /\ inflight[r].uid = i
                      /\ inflight'[r].op = "none"]_vars

\* a login has just written the slot of its account while another account,
\* whose slot is not null, exists
C33_Witness ==
    /\ resp.op = "login" /\ resp.status = 201
    /\ users[resp.uid].refreshToken = resp.refresh
    /\ \E i \in Ids : i # resp.uid /\ users[i].refreshToken # Null

\* do the claims of token tok name account u?
Names(tok, u) == tok.id = u.id /\ tok.name = u.name /\ tok.role = u.role

\* C34: the access token and the refresh token that a successful login or
\* rotate returns carry the id, name and role of the stored account the
\* operation acted on; rotate acts on the account named by the id claim of
\* the presented token; and the identity authenticate attaches is the one
\* the presented bearer token names.
C34_TokenClaims ==
    /\ (resp.op \in {"login", "refresh"} /\ resp.status \in {200, 201})
       => /\ Names(resp.access, users[resp.uid])
          /\ resp.refresh.kind = "jwt" => Names(resp.refresh, users[resp.uid])
    /\ (resp.op = "refresh" /\ resp.status = 200) => resp.uid = resp.tok.id
    /\ (resp.op = "logout" /\ resp.status = 200) => resp.uid = resp.tok.id

\* C35: in every reachable state each account's currentRefreshToken is null
\* or a refresh token that login or rotate issued for that same account:
\* never the empty string, a token naming another account or a value a
\* client supplied.
C35_SlotWellFormed ==
    \A i \in Ids :
      \/ users[i].refreshToken = Null
      \/ /\ IsRefresh(users[i].refreshToken)
         /\ users[i].refreshToken.id = i
         /\ users[i].refreshToken \in known

\* C36: no two accounts have the same email; and a register for an email
\* that is taken, also when it was taken by an overlapping register while
\* this one was in flight, fails with 403: a register is answered 201, 400
\* (invalid body) or 403, and with 403 unless it created the account.
C36_UniqueEmail ==
    /\ \A i, j \in Ids : users[i].email = users[j].email => i = j
    /\ resp.op = "register" => resp.status \in {201, 400, 403}
    /\ (resp.op = "register" /\ resp.status = 201)
       => users[resp.uid].email = resp.email
====
